---- MODULE Spec2Model ----
(***************************************************************************)
(* Exchange-rate / stock ingestion pipeline: the relational store          *)
(* (database.py), the quota-bounded batcher (download.py) and the derived  *)
(* metrics (metrics_calculation.py).                                       *)
(*                                                                         *)
(* Representation.  A 'YYYY-MM-DD' string is the triple <<y, m, d>>; a     *)
(* Python date is its day number within the year (strptime / isoformat     *)
(* convert between the two).  Python None and SQL NULL are None.  A table  *)
(* is the sequence of its rows in rowid (insertion) order.  A float of the  *)
(* metrics is a binary64 value, rounded after every operation.             *)
(***************************************************************************)
EXTENDS Integers, Sequences, FiniteSets, TLC

\* ------------------------------------------------------------------ bounds
MaxRows == 2        \* longest row list handed to one store call
MaxTable == 3       \* cap on the rows of the stock table
MaxSpan == 20       \* longest date range of a backfill, in days
MaxFailures == 1    \* responses without the day's payload per run
MaxDays == 3        \* days a fact table holds a row for when the metrics read it
MaxLen == 3         \* longest change series handed to the correlation
MaxRespDays == 9    \* most days one API response carries
MaxQueryDays == 2   \* days the tables hold rows for when the queries are checked
MaxOrgDays == 2     \* days of a response whose days differ in their currencies

\* --------------------------------------------------------------- constants
None == -1          \* Python None / SQL NULL; dimension ids are >= 0
Year == 2025        \* the year of every date handled
RecordLimit == 25   \* records allowed per batch
RecordsPerCall == 3 \* records counted per fetch: 3 currency pairs or 3 symbols, one day
BatchStride == 8    \* days the backfill advances per batch
RowCap == 25        \* rows _limit_to_25_by_date keeps

VARIABLES
    currency,       \* dimension table: set of <<id, name>>
    symbol,         \* dimension table: set of <<id, name>>
    exchange_rate,  \* fact table as the connection sees it: rows <<date, base, target, rate>>
    stock,          \* fact table: rows <<date, symbol, open, high, low, close, volume, exchange, currency>>
    committed,      \* [exchange_rate, stock]: how many leading rows of each table are committed
    call,           \* the store call in progress or just ended: arguments, position, outcome
    run,            \* the download run: position and locals of the backfill and batch loops
    fetched,        \* the requests issued by the run: <<start_date, end_date>> of each
    batches,        \* the start_date argument of each batch of the run
    failures,       \* how many fetches of the run got a response without the day's payload
    dl,             \* the last download_*_data call: what was raised, what the store got
    calc            \* the metrics call: function, arguments, rows read, outcome

dbvars == <<currency, symbol, exchange_rate, stock, committed>>
batchvars == <<run, fetched, batches, failures, dl>>
metricvars == <<calc>>
vars == <<currency, symbol, exchange_rate, stock, committed, call,
          run, fetched, batches, failures, dl, calc>>

\* ------------------------------------------------------------------- dates
DaysInMonth == <<31, 28, 31, 30, 31, 30, 31, 31, 30, 31, 30, 31>>

\* days of the year before the first of each month
DaysBeforeMonth == <<0, 31, 59, 90, 120, 151, 181, 212, 243, 273, 304, 334>>

\* datetime.strptime(s, '%Y-%m-%d').date(): string to date
strptime(s) == DaysBeforeMonth[s[2]] + s[3]

\* date.isoformat() / strftime('%Y-%m-%d'): date to string
isoformat(d) ==
    LET m == CHOOSE k \in 1..12 :
                 DaysBeforeMonth[k] < d /\ d <= DaysBeforeMonth[k] + DaysInMonth[k]
    IN  <<Year, m, d - DaysBeforeMonth[m]>>

\* -------------------------------------------------------- dimension tables
\* A plain INSERT into a dimension without the UNIQUE name: the row gets the next id.
InsertDim(table, id, name) == table \cup {<<Cardinality(table), name>>}

\* INSERT OR IGNORE INTO <dimension> (id, name): id is the primary key, name is UNIQUE
InsertOrIgnoreDim(table, id, name) ==
    IF \E r \in table : r[1] = id \/ r[2] = name THEN table ELSE table \cup {<<id, name>>}

RECURSIVE SeedDim(_, _, _)
SeedDim(table, names, i) ==
    IF i > Len(names) THEN table
    ELSE SeedDim(InsertOrIgnoreDim(table, i - 1, names[i]), names, i + 1)

set_up_currency_symbol_table(currencies, symbols) ==
    /\ currency' = SeedDim(currency, currencies, 1)
    /\ symbol' = SeedDim(symbol, symbols, 1)

get_currency_id(name) ==
    IF \E r \in currency : r[2] = name
    THEN (CHOOSE r \in currency : r[2] = name)[1]
    ELSE None

get_symbol_id(name) ==
    IF \E r \in symbol : r[2] = name
    THEN (CHOOSE r \in symbol : r[2] = name)[1]
    ELSE None

\* ------------------------------------------------------------- fact tables
\* PRIMARY KEY (collect_date, base_currency, target_currency) of a rowid table:
\* two rows collide when every key column is equal and not NULL.
ExchangeKeyCollides(a, b) ==
    /\ a[1] = b[1]
    /\ a[2] # None /\ a[2] = b[2]
    /\ a[3] # None /\ a[3] = b[3]

\* PRIMARY KEY (collect_date, symbol)
StockKeyCollides(a, b) ==
    /\ a[1] = b[1]
    /\ a[2] # None /\ a[2] = b[2]

InsertOrReplaceExchange(table, r) ==
    IF \E i \in 1..Len(table) : ExchangeKeyCollides(table[i], r)
    THEN [i \in 1..Len(table) |-> IF ExchangeKeyCollides(table[i], r) THEN r ELSE table[i]]
    ELSE Append(table, r)

\* INSERT OR IGNORE INTO exchange_rate
InsertOrIgnoreExchange(table, r) ==
    IF \E i \in 1..Len(table) : ExchangeKeyCollides(table[i], r)
    THEN table
    ELSE Append(table, r)

\* INSERT OR IGNORE INTO stock
InsertOrIgnoreStock(table, r) ==
    IF \E i \in 1..Len(table) : StockKeyCollides(table[i], r)
    THEN table
    ELSE Append(table, r)

\* One iteration of the loop of store_exchange_rates_to_db: the table it leaves and
\* the error it raised ("" for none).
exchange_row(table, row) ==
    LET base_currency_id == get_currency_id(row[2])
        target_currency_id == get_currency_id(row[3])
    IN  IF base_currency_id = None
        THEN [table |-> table, raised |-> "base currency not found"]
        ELSE IF target_currency_id = None
        THEN [table |-> table, raised |-> "target currency not found"]
        ELSE LET collect_date == strptime(row[1])
             IN  [table |-> InsertOrIgnoreExchange(table,
                                <<isoformat(collect_date), base_currency_id,
                                  target_currency_id, row[4]>>),
                  raised |-> ""]

\* One iteration of the loop of store_stock_data_to_db; symbol_id is not checked.
stock_row(table, row) ==
    LET collect_date == strptime(row[1])
        symbol_id == get_symbol_id(row[2])
    IN  [table |-> InsertOrIgnoreStock(table,
                       <<isoformat(collect_date), symbol_id, row[3], row[4], row[5],
                         row[6], row[7], row[8], row[9]>>),
         raised |-> ""]

\* conn.commit(): everything pending on the connection becomes durable
Commit(ex, st) == [exchange_rate |-> Len(ex), stock |-> Len(st)]

\* ------------------------------------------------------------------ inputs
D1 == <<Year, 10, 31>>
D2 == <<Year, 11, 1>>

\* rows as the callers build them: (date, base, target, rate); XAU and JPY are not seeded
ExchangeRows ==
    { <<D1, "USD", "EUR", 1>>, <<D1, "USD", "EUR", 2>>, <<D2, "USD", "GBP", 1>>,
      <<D1, "USD", "JPY", 1>>, <<D1, "XAU", "EUR", 1>> }

\* (date, symbol, open, high, low, close, volume, exchange, currency); MSFT is not seeded
StockRows ==
    { <<D1, "AAPL", 100, 101, 99, 100, 10000, "NASDAQ", "USD">>,
      <<D1, "AAPL", 101, 102, 100, 101, 10000, "NASDAQ", "USD">>,
      <<D2, "TSLA", 80, 81, 79, 80, 10000, "NASDAQ", "USD">>,
      <<D1, "MSFT", 90, 91, 89, 90, 10000, "NASDAQ", "USD">> }

\* ------------------------------------------------------------ store calls
\* A store call is entered with the tables as they are; its list argument is revealed
\* row by row (the loop never looks ahead), or is the whole list of the call before
\* when that call is run again with the identical rows.
NewCall(op, data, rerun) ==
    [op |-> op, data |-> data, k |-> 0, pc |-> "loop", raised |-> "", rerun |-> rerun,
     exchange_rate0 |-> exchange_rate, stock0 |-> stock]

\* the rows the next iteration may see
NextRows(rows) ==
    IF call.k < Len(call.data) THEN {call.data[call.k + 1]}
    ELSE IF call.rerun \/ Len(call.data) >= MaxRows THEN {}
    ELSE rows

CallStoreExchange ==
    /\ call.pc # "loop"
    /\ call' = NewCall("store_exchange_rates_to_db", <<>>, FALSE)
    /\ UNCHANGED dbvars
    /\ UNCHANGED <<batchvars, metricvars>>

CallStoreStock ==
    /\ call.pc # "loop"
    /\ call' = NewCall("store_stock_data_to_db", <<>>, FALSE)
    /\ UNCHANGED dbvars
    /\ UNCHANGED <<batchvars, metricvars>>

\* the call that just ended, once more with the identical rows
Rerun ==
    /\ call.pc \in {"returned", "raised"}
    /\ call' = NewCall(call.op, call.data, TRUE)
    /\ UNCHANGED dbvars
    /\ UNCHANGED <<batchvars, metricvars>>

\* The iteration on a connection in autocommit mode: the insert is committed at once.
ExchangeRowAutocommit ==
    /\ call.pc = "loop"
    /\ call.op = "store_exchange_rates_to_db"
    /\ \E row \in NextRows(ExchangeRows) :
         LET r == exchange_row(exchange_rate, row)
         IN  /\ exchange_rate' = r.table
             /\ committed' = Commit(r.table, stock)
             /\ call' = [call EXCEPT !.data = IF call.k < Len(@) THEN @ ELSE Append(@, row),
                                     !.k = @ + 1,
                                     !.raised = r.raised,
                                     !.pc = IF r.raised = "" THEN "loop" ELSE "raised"]
    /\ UNCHANGED <<currency, symbol, stock>>
    /\ UNCHANGED <<batchvars, metricvars>>

\* for row in data: ... of store_exchange_rates_to_db
ExchangeRow ==
    /\ call.pc = "loop"
    /\ call.op = "store_exchange_rates_to_db"
    /\ \E row \in NextRows(ExchangeRows) :
         LET r == exchange_row(exchange_rate, row)
         IN  /\ exchange_rate' = r.table
             /\ call' = [call EXCEPT !.data = IF call.k < Len(@) THEN @ ELSE Append(@, row),
                                     !.k = @ + 1,
                                     !.raised = r.raised,
                                     !.pc = IF r.raised = "" THEN "loop" ELSE "raised"]
    /\ UNCHANGED <<currency, symbol, stock, committed>>
    /\ UNCHANGED <<batchvars, metricvars>>

\* for row in data: ... of store_stock_data_to_db
StockRow ==
    /\ call.pc = "loop"
    /\ call.op = "store_stock_data_to_db"
    /\ \E row \in NextRows(StockRows) :
         LET r == stock_row(stock, row)
         IN  /\ Len(r.table) <= MaxTable
             /\ stock' = r.table
             /\ call' = [call EXCEPT !.data = IF call.k < Len(@) THEN @ ELSE Append(@, row),
                                     !.k = @ + 1,
                                     !.raised = r.raised,
                                     !.pc = IF r.raised = "" THEN "loop" ELSE "raised"]
    /\ UNCHANGED <<currency, symbol, exchange_rate, committed>>
    /\ UNCHANGED <<batchvars, metricvars>>

\* the loop is over: conn.commit() and return
StoreReturn ==
    /\ call.pc = "loop"
    /\ call.k = Len(call.data)
    /\ committed' = Commit(exchange_rate, stock)
    /\ call' = [call EXCEPT !.pc = "returned"]
    /\ UNCHANGED <<currency, symbol, exchange_rate, stock>>
    /\ UNCHANGED <<batchvars, metricvars>>

\* A connection that is dropped without commit: its pending rows are rolled back.
Rollback(table, n) == SubSeq(table, 1, n)

\* set_up_database: a new connection to the database file (the one before is gone),
\* the seeding of the dimension tables and CREATE TABLE IF NOT EXISTS.
set_up_database ==
    /\ set_up_currency_symbol_table(<<"USD", "EUR", "CNY", "GBP">>, <<"AAPL", "TSLA", "NVDA">>)
    /\ exchange_rate' = Rollback(exchange_rate, committed.exchange_rate)
    /\ stock' = Rollback(stock, committed.stock)
    /\ UNCHANGED committed

NoCall ==
    [op |-> "none", data |-> <<>>, k |-> 0, pc |-> "idle", raised |-> "", rerun |-> FALSE,
     exchange_rate0 |-> <<>>, stock0 |-> <<>>]

SetUp ==
    /\ call.pc # "loop"
    /\ set_up_database
    /\ call' = NoCall
    /\ UNCHANGED <<batchvars, metricvars>>

\* --------------------------------------------------------- specification
NoRun ==
    [pc |-> "idle", kind |-> "none", arg_start |-> <<>>, arg_end |-> <<>>, ret |-> "top",
     current_date |-> 0, end_date |-> 0, i |-> 0, start_date |-> 0, batch_start |-> 0,
     first |-> 0, conn |-> 0]

NoMetrics == [fn |-> "none", args |-> <<>>, data |-> <<>>, raised |-> "", result |-> <<>>]

NoDownload ==
    [fn |-> "none", fetch_raised |-> "", store_called |-> FALSE, rows |-> <<>>,
     store_raised |-> "", propagated |-> "", exchange_rate0 |-> <<>>, stock0 |-> <<>>]

\* a fresh database file after set_up_database
Init ==
    /\ currency = SeedDim({}, <<"USD", "EUR", "CNY", "GBP">>, 1)
    /\ symbol = SeedDim({}, <<"AAPL", "TSLA", "NVDA">>, 1)
    /\ exchange_rate = <<>>
    /\ stock = <<>>
    /\ committed = Commit(<<>>, <<>>)
    /\ call = NoCall
    /\ run = NoRun
    /\ fetched = <<>>
    /\ batches = <<>>
    /\ failures = 0
    /\ dl = NoDownload
    /\ calc = NoMetrics

Next ==
    \/ CallStoreExchange
    \/ CallStoreStock
    \/ Rerun
    \/ ExchangeRow
    \/ StockRow
    \/ StoreReturn
    \/ SetUp

Spec == Init /\ [][Next]_vars

\* ------------------------------------------------- properties of the store
DimIds(table) == { r[1] : r \in table }

CallEnded == call.pc \in {"returned", "raised"}

\* the key columns a row of a caller's list is stored under
ExchangeKeyOf(row) == <<row[1], get_currency_id(row[2]), get_currency_id(row[3])>>
StockKeyOf(row) == <<row[1], get_symbol_id(row[2])>>

ExchangeNamesKnown(row) == get_currency_id(row[2]) # None /\ get_currency_id(row[3]) # None
StockNamesKnown(row) == get_symbol_id(row[2]) # None

\* C1: a store call run a second time with the identical rows leaves both fact tables
\* with exactly the rows (and the row count) they had after the first call.
C1_Idempotent ==
    (CallEnded /\ call.rerun) =>
        /\ exchange_rate = call.exchange_rate0
        /\ stock = call.stock0

\* C2: inserts never overwrite.  Every row stored before a store call keeps its place
\* and all of its values; a row added by the call never has the key of a row stored
\* before it; and the row stored under the key of a processed row carries the values
\* of the first write of that key (the row stored before the call, else the first row
\* of the list with that key), also when a later row has another rate or price.
C2_FirstWriteWins ==
    /\ Len(call.exchange_rate0) <= Len(exchange_rate)
    /\ Len(call.stock0) <= Len(stock)
    /\ \A i \in 1..Len(call.exchange_rate0) : exchange_rate[i] = call.exchange_rate0[i]
    /\ \A i \in 1..Len(call.stock0) : stock[i] = call.stock0[i]
    /\ \A n \in (Len(call.exchange_rate0) + 1)..Len(exchange_rate) :
           \A i \in 1..Len(call.exchange_rate0) :
               <<exchange_rate[i][1], exchange_rate[i][2], exchange_rate[i][3]>>
                   # <<exchange_rate[n][1], exchange_rate[n][2], exchange_rate[n][3]>>
    /\ call.op = "store_exchange_rates_to_db" =>
           \A j \in 1..call.k :
               (ExchangeNamesKnown(call.data[j]) /\ (call.pc = "raised" => j < call.k)) =>
                   LET key == ExchangeKeyOf(call.data[j])
                       old == { i \in 1..Len(call.exchange_rate0) :
                                  <<call.exchange_rate0[i][1], call.exchange_rate0[i][2],
                                    call.exchange_rate0[i][3]>> = key }
                       first == CHOOSE f \in 1..j :
                                  /\ ExchangeKeyOf(call.data[f]) = key
                                  /\ \A g \in 1..(f - 1) : ExchangeKeyOf(call.data[g]) # key
                       want == IF old # {} THEN call.exchange_rate0[CHOOSE i \in old : TRUE][4]
                               ELSE call.data[first][4]
                   IN  \E i \in 1..Len(exchange_rate) :
                           exchange_rate[i] = <<key[1], key[2], key[3], want>>
    /\ call.op = "store_stock_data_to_db" =>
           \A j \in 1..call.k :
               StockNamesKnown(call.data[j]) =>
                   LET key == StockKeyOf(call.data[j])
                       old == { i \in 1..Len(call.stock0) :
                                  <<call.stock0[i][1], call.stock0[i][2]>> = key }
                       first == CHOOSE f \in 1..j :
                                  /\ StockKeyOf(call.data[f]) = key
                                  /\ \A g \in 1..(f - 1) : StockKeyOf(call.data[g]) # key
                       want == IF old # {} THEN call.stock0[CHOOSE i \in old : TRUE]
                               ELSE [c \in 1..9 |-> IF c = 2 THEN key[2] ELSE call.data[first][c]]
                   IN  \E i \in 1..Len(stock) : stock[i] = want

\* C2 witness: a call has ended that carried a row whose key was stored before the
\* call with another rate.
C2_Witness ==
    /\ CallEnded
    /\ call.op = "store_exchange_rates_to_db"
    /\ \E j \in 1..call.k : \E i \in 1..Len(call.exchange_rate0) :
           /\ ExchangeNamesKnown(call.data[j])
           /\ <<call.exchange_rate0[i][1], call.exchange_rate0[i][2],
                call.exchange_rate0[i][3]>> = ExchangeKeyOf(call.data[j])
           /\ call.exchange_rate0[i][4] # call.data[j][4]
           /\ Len(exchange_rate) > 1

\* C3: at most one exchange_rate row per (date, base, target) and at most one stock
\* row per (date, symbol), whatever rows were stored.
C3_KeyUnique ==
    /\ \A i, j \in 1..Len(exchange_rate) :
           (i # j) => <<exchange_rate[i][1], exchange_rate[i][2], exchange_rate[i][3]>>
                          # <<exchange_rate[j][1], exchange_rate[j][2], exchange_rate[j][3]>>
    /\ \A i, j \in 1..Len(stock) :
           (i # j) => <<stock[i][1], stock[i][2]>> # <<stock[j][1], stock[j][2]>>

\* C4: every fact row references ids of its dimension table; no row is stored with a
\* missing (NULL) dimension id.
C4_Referential ==
    /\ \A i \in 1..Len(exchange_rate) :
           /\ exchange_rate[i][2] \in DimIds(currency)
           /\ exchange_rate[i][3] \in DimIds(currency)
    /\ \A i \in 1..Len(stock) : stock[i][2] \in DimIds(symbol)

\* C5: a row naming a currency or symbol missing from its dimension table makes the
\* store call raise at that row: the loop stops there and the row is not inserted.
C5_UnknownNameRaises ==
    \A j \in 1..call.k :
        LET unknown == IF call.op = "store_exchange_rates_to_db"
                       THEN ~ExchangeNamesKnown(call.data[j])
                       ELSE ~StockNamesKnown(call.data[j])
        IN  unknown =>
                /\ call.pc = "raised"
                /\ call.k = j
                /\ \A i \in 1..Len(stock) : stock[i][2] # None

\* ---------------------------------------------------------- the two APIs
\* An HTTP response as the fetchers read it: the status, whether the body parses as
\* JSON, which of the keys "error", "message" and "success" the body has, its payload.
Response(status, valid, err, msg, success, payload) ==
    [status_code |-> status, valid_json |-> valid, has_error |-> err,
     has_message |-> msg, success |-> success, payload |-> payload]

NoPayload == [base |-> "", rates |-> <<>>, data |-> <<>>]

\* the timeseries body for one day: base, and rates as day -> currency -> rate
ExchangePayload(day) ==
    [base |-> "USD",
     rates |-> << <<isoformat(day), << <<"CNY", 7>>, <<"EUR", 1>>, <<"GBP", 1>> >> >> >>,
     data |-> <<>>]

StockRecord(day, sym, price, cur) ==
    [open |-> price, high |-> price + 1, low |-> price - 1, close |-> price,
     volume |-> 10000, price_currency |-> cur, symbol |-> sym, exchange |-> "XNAS",
     date |-> isoformat(day) \o <<"T00:00:00+0000">>]

\* the end-of-day body for one day: one record per symbol
StockPayload(day) ==
    [base |-> "", rates |-> <<>>,
     data |-> << StockRecord(day, "AAPL", 100, "USD"), StockRecord(day, "NVDA", 90, ""),
                 StockRecord(day, "TSLA", 80, "usd") >>]

ExchangeResponses(day) ==
    { Response(200, TRUE, FALSE, FALSE, "true", ExchangePayload(day)),
      Response(429, TRUE, TRUE, FALSE, "missing", NoPayload),
      Response(401, TRUE, FALSE, TRUE, "missing", NoPayload),
      Response(500, TRUE, FALSE, FALSE, "missing", NoPayload),
      Response(200, TRUE, TRUE, FALSE, "false", NoPayload),
      Response(200, TRUE, FALSE, FALSE, "missing", NoPayload),
      Response(502, FALSE, FALSE, FALSE, "missing", NoPayload) }

StockResponses(day) ==
    { Response(200, TRUE, FALSE, FALSE, "missing", StockPayload(day)),
      Response(200, TRUE, FALSE, FALSE, "missing", NoPayload),
      Response(429, TRUE, TRUE, FALSE, "missing", NoPayload),
      Response(200, TRUE, TRUE, FALSE, "missing", NoPayload),
      Response(500, TRUE, FALSE, FALSE, "missing", NoPayload),
      Response(502, FALSE, FALSE, FALSE, "missing", NoPayload) }

\* get_exchange_rate_data: the exception class it raises ("" for none) and the JSON
get_exchange_rate_data(response) ==
    IF ~response.valid_json THEN [raised |-> "JSONDecodeError", json |-> NoPayload]
    ELSE IF response.status_code # 200 THEN [raised |-> "Exception", json |-> NoPayload]
    ELSE IF response.success = "missing" THEN [raised |-> "KeyError", json |-> NoPayload]
    ELSE IF response.success = "false"
    THEN [raised |-> IF response.has_error THEN "Exception" ELSE "KeyError",
          json |-> NoPayload]
    ELSE [raised |-> "", json |-> response.payload]

\* get_stock_data of download.py
api_get_stock_data(response) ==
    IF ~response.valid_json THEN [raised |-> "JSONDecodeError", json |-> NoPayload]
    ELSE IF response.status_code # 200 \/ response.has_error
    THEN [raised |-> IF response.has_error THEN "Exception" ELSE "KeyError",
          json |-> NoPayload]
    ELSE [raised |-> "", json |-> response.payload]

\* Only the first currency of a day is taken.
RowsOfDayFirstOnly(base, day) ==
    IF day[2] = <<>> THEN <<>> ELSE << <<day[1], base, day[2][1][1], day[2][1][2]>> >>

RowsOfDay(base, day) ==
    [n \in 1..Len(day[2]) |-> <<day[1], base, day[2][n][1], day[2][n][2]>>]

RECURSIVE organize_days(_, _, _)
organize_days(base, rates, k) ==
    IF k > Len(rates) THEN <<>>
    ELSE RowsOfDay(base, rates[k]) \o organize_days(base, rates, k + 1)

organize_exchange_rate_data(exchange_data) ==
    organize_days(exchange_data.base, exchange_data.rates, 1)

\* str.upper() on the currency codes the API sends
upper(str) == IF str = "usd" THEN "USD" ELSE str

organize_stock_data(stock_data) ==
    [n \in 1..Len(stock_data.data) |->
        LET data == stock_data.data[n]
            currency_ == IF data.price_currency # "" THEN upper(data.price_currency)
                         ELSE "unknown"
        IN  <<SubSeq(data.date, 1, 3), data.symbol, data.open, data.high, data.low,
              data.close, data.volume, data.exchange, currency_>>]

\* the whole loop of store_exchange_rates_to_db
RECURSIVE store_exchange_rates_loop(_, _, _)
store_exchange_rates_loop(data, k, table) ==
    IF k > Len(data) THEN [table |-> table, raised |-> ""]
    ELSE LET r == exchange_row(table, data[k])
         IN  IF r.raised # "" THEN r ELSE store_exchange_rates_loop(data, k + 1, r.table)

\* the whole loop of store_stock_data_to_db
RECURSIVE store_stock_data_loop(_, _, _)
store_stock_data_loop(data, k, table) ==
    IF k > Len(data) THEN [table |-> table, raised |-> ""]
    ELSE LET r == stock_row(table, data[k])
         IN  IF r.raised # "" THEN r ELSE store_stock_data_loop(data, k + 1, r.table)

CaughtOnlyKeyError(cls) == cls = "KeyError"

\* except Exception as e: every class raised in the try block derives from Exception
Caught(cls) == cls \in {"Exception", "KeyError", "JSONDecodeError"}

Propagated(cls) == IF cls # "" /\ ~Caught(cls) THEN cls ELSE ""

\* download_exchange_rate_data: fetch, organize, store, except
download_exchange_rate_data(response) ==
    LET f == get_exchange_rate_data(response)
        organized_data == IF f.raised = "" THEN organize_exchange_rate_data(f.json) ELSE <<>>
        s == IF f.raised = "" THEN store_exchange_rates_loop(organized_data, 1, exchange_rate)
             ELSE [table |-> exchange_rate, raised |-> ""]
        e == IF f.raised # "" THEN f.raised ELSE IF s.raised # "" THEN "Exception" ELSE ""
    IN  /\ exchange_rate' = s.table
        /\ committed' = IF e = "" THEN Commit(s.table, stock) ELSE committed
        /\ dl' = [fn |-> "download_exchange_rate_data", fetch_raised |-> f.raised,
                  store_called |-> (f.raised = ""), rows |-> organized_data,
                  store_raised |-> s.raised, propagated |-> Propagated(e),
                  exchange_rate0 |-> exchange_rate, stock0 |-> stock]
        /\ UNCHANGED <<currency, symbol, stock>>

\* download_stock_data: fetch, organize, store, except
download_stock_data(response) ==
    LET f == api_get_stock_data(response)
        organized_data == IF f.raised = "" THEN organize_stock_data(f.json) ELSE <<>>
        s == IF f.raised = "" THEN store_stock_data_loop(organized_data, 1, stock)
             ELSE [table |-> stock, raised |-> ""]
        e == IF f.raised # "" THEN f.raised ELSE IF s.raised # "" THEN "Exception" ELSE ""
    IN  /\ stock' = s.table
        /\ committed' = IF e = "" THEN Commit(exchange_rate, s.table) ELSE committed
        /\ dl' = [fn |-> "download_stock_data", fetch_raised |-> f.raised,
                  store_called |-> (f.raised = ""), rows |-> organized_data,
                  store_raised |-> s.raised, propagated |-> Propagated(e),
                  exchange_rate0 |-> exchange_rate, stock0 |-> stock]
        /\ UNCHANGED <<currency, symbol, exchange_rate>>

\* ------------------------------------------------------ batch and backfill
limit_25_continue_off_by_one(i) == i < RecordLimit

\* while i + 3 < 25
limit_25_continue(i) == i + RecordsPerCall < RecordLimit

months_continue_strict(current_date, end_date) == current_date < end_date

\* while current_date <= end_date
months_continue(current_date, end_date) == current_date <= end_date

\* start dates of a single batch, and the start date of a backfill
StartDates == { <<Year, 10, 1>>, <<Year, 10, 20>> }
BackfillStart == <<Year, 10, 20>>
Kinds == {"exchange", "stock"}

\* download_exchange_rate_months / download_stock_months (start_date, end_date)
CallMonths ==
    /\ run.pc = "idle"
    /\ \E kind \in Kinds, start \in {BackfillStart}, n \in 0..MaxSpan :
         LET end == isoformat(strptime(start) + n - 1)
         IN  run' = [NoRun EXCEPT !.pc = "months", !.kind = kind, !.ret = "months",
                                  !.arg_start = start, !.arg_end = end,
                                  !.current_date = strptime(start),
                                  !.end_date = strptime(end)]
    /\ UNCHANGED <<dbvars, call, calc, fetched, batches, failures, dl>>

\* Entry of download_*_limit_25(start_date): set_up_database, then i = 0.
EnterBatch(r, start_date) ==
    /\ set_up_database
    /\ run' = [r EXCEPT !.pc = "limit25", !.i = 0, !.start_date = strptime(start_date),
                        !.batch_start = strptime(start_date), !.first = Len(fetched),
                        !.conn = @ + 1]
    /\ batches' = Append(batches, start_date)
    /\ UNCHANGED <<call, calc, fetched, failures, dl>>

\* demo / exchange_data_collection / stock_data_collection: one batch on its own
CallLimit25 ==
    /\ run.pc = "idle"
    /\ \E kind \in Kinds, start \in StartDates :
         EnterBatch([NoRun EXCEPT !.kind = kind, !.ret = "top", !.arg_start = start], start)

\* the backfill loop goes on: the next batch starts at current_date
MonthsBatch ==
    /\ run.pc = "months"
    /\ months_continue(run.current_date, run.end_date)
    /\ EnterBatch(run, isoformat(run.current_date))

\* the backfill loop is over
MonthsReturn ==
    /\ run.pc = "months"
    /\ ~months_continue(run.current_date, run.end_date)
    /\ run' = [run EXCEPT !.pc = "done"]
    /\ UNCHANGED <<dbvars, call, calc, fetched, batches, failures, dl>>

\* a response without the day's payload: a failure, or a day without data
Short(response) == response.payload = NoPayload

\* The iteration with a retry: a day whose fetch failed is neither counted nor passed.
AfterDownloadRetry ==
    /\ fetched' = Append(fetched, <<isoformat(run.start_date), isoformat(run.start_date)>>)
    /\ run' = IF dl'.propagated # "" THEN [run EXCEPT !.pc = "aborted"]
              ELSE IF dl'.fetch_raised # "" THEN run
              ELSE [run EXCEPT !.i = @ + RecordsPerCall, !.start_date = @ + 1]
    /\ UNCHANGED <<call, calc, batches>>

\* one iteration of the batch loop: the day's download, i += 3, the next day
AfterDownload ==
    /\ fetched' = Append(fetched, <<isoformat(run.start_date), isoformat(run.start_date)>>)
    /\ run' = IF dl'.propagated # "" THEN [run EXCEPT !.pc = "aborted"]
              ELSE [run EXCEPT !.i = @ + RecordsPerCall, !.start_date = @ + 1]
    /\ UNCHANGED <<call, calc, batches>>

ExchangeDay ==
    /\ run.pc = "limit25"
    /\ run.kind = "exchange"
    /\ limit_25_continue(run.i)
    /\ \E response \in ExchangeResponses(run.start_date) :
         /\ Short(response) => failures < MaxFailures
         /\ failures' = IF Short(response) THEN failures + 1 ELSE failures
         /\ download_exchange_rate_data(response)
    /\ AfterDownload

StockDay ==
    /\ run.pc = "limit25"
    /\ run.kind = "stock"
    /\ limit_25_continue(run.i)
    /\ \E response \in StockResponses(run.start_date) :
         /\ Short(response) => failures < MaxFailures
         /\ failures' = IF Short(response) THEN failures + 1 ELSE failures
         /\ download_stock_data(response)
    /\ AfterDownload

\* the batch loop is over: the batch's connection goes with its locals
Limit25Return ==
    /\ run.pc = "limit25"
    /\ ~limit_25_continue(run.i)
    /\ exchange_rate' = Rollback(exchange_rate, committed.exchange_rate)
    /\ stock' = Rollback(stock, committed.stock)
    /\ run' = IF run.ret = "months"
              THEN [run EXCEPT !.pc = "months", !.current_date = @ + BatchStride]
              ELSE [run EXCEPT !.pc = "done"]
    /\ UNCHANGED <<currency, symbol, committed, call, calc, fetched, batches, failures, dl>>

\* the sample rows of the database module's demo, first day
SampleExchangeRates ==
    << <<<<Year, 1, 1>>, "USD", "CNY", 1>>, <<<<Year, 1, 1>>, "USD", "EUR", 2>>,
       <<<<Year, 1, 1>>, "USD", "GBP", 3>> >>

SampleStocks ==
    << <<<<Year, 1, 1>>, "AAPL", 100, 101, 99, 100, 10000, "NASDAQ", "USD">>,
       <<<<Year, 1, 1>>, "TSLA", 80, 81, 79, 80, 10000, "NASDAQ", "USD">>,
       <<<<Year, 1, 1>>, "NVDA", 90, 91, 89, 90, 10000, "NASDAQ", "USD">> >>

\* the database file before a download run: fresh, or holding the demo's sample rows
InitBatch ==
    /\ currency = SeedDim({}, <<"USD", "EUR", "CNY", "GBP">>, 1)
    /\ symbol = SeedDim({}, <<"AAPL", "TSLA", "NVDA">>, 1)
    /\ \E sample \in BOOLEAN :
         /\ exchange_rate = IF sample
                            THEN store_exchange_rates_loop(SampleExchangeRates, 1, <<>>).table
                            ELSE <<>>
         /\ stock = IF sample THEN store_stock_data_loop(SampleStocks, 1, <<>>).table
                    ELSE <<>>
    /\ committed = Commit(exchange_rate, stock)
    /\ call = NoCall
    /\ run = NoRun
    /\ fetched = <<>>
    /\ batches = <<>>
    /\ failures = 0
    /\ dl = NoDownload
    /\ calc = NoMetrics

NextBatch ==
    \/ CallMonths
    \/ CallLimit25
    \/ MonthsBatch
    \/ MonthsReturn
    \/ ExchangeDay
    \/ StockDay
    \/ Limit25Return

SpecBatch == InitBatch /\ [][NextBatch]_vars

\* ------------------------------------------- properties of the batcher
\* the requests of the batch entered last
BatchFetches == SubSeq(fetched, run.first + 1, Len(fetched))

\* C6: a batch fetches one calendar day per call (request start = request end = the
\* day), the consecutive days from its start date on, counts 3 records per call, never
\* counts more than 25, covers at most 8 days, and stops only when one more call would
\* take the count past 25.
C6_QuotaBounded ==
    run.conn > 0 =>
        /\ run.i <= RecordLimit
        /\ run.i = 3 * Len(BatchFetches)
        /\ Len(BatchFetches) <= 8
        /\ \A j \in 1..Len(BatchFetches) :
               BatchFetches[j] = <<isoformat(run.batch_start + j - 1),
                                   isoformat(run.batch_start + j - 1)>>
        /\ run.pc \in {"months", "done"} => run.i + 3 > 25

\* C6 witness: a batch at the end of its loop, 8 days fetched and 24 records counted.
C6_Witness ==
    /\ run.pc = "limit25"
    /\ run.i = 24
    /\ Len(BatchFetches) = 8
    /\ BatchFetches[8] = <<isoformat(run.batch_start + 7), isoformat(run.batch_start + 7)>>

\* the number of calendar days of the backfill's range, end - start + 1
RangeDays == strptime(run.arg_end) - strptime(run.arg_start) + 1

CeilDiv(n, d) == (n + d - 1) \div d

BatchesWanted == IF RangeDays <= 0 THEN 0 ELSE CeilDiv(RangeDays, 8)

\* C7: a backfill over N calendar days runs exactly ceil(N / 8) batches, batch k
\* starting at start + 8k; 20 days give 3 batches, start after end gives none; the
\* loop never runs more than ceil(N / 8) times.
C7_BatchCount ==
    (run.ret = "months" /\ run.pc # "idle") =>
        /\ Len(batches) <= BatchesWanted
        /\ \A k \in 1..Len(batches) :
               batches[k] = isoformat(strptime(run.arg_start) + 8 * (k - 1))
        /\ run.pc = "done" => Len(batches) = BatchesWanted
        /\ (run.pc = "done" /\ RangeDays = 20) => Len(batches) = 3
        /\ (run.pc = "done" /\ RangeDays <= 0) => Len(batches) = 0

\* C7 witness: a backfill over 20 days has ended after 3 batches.
C7_Witness ==
    /\ run.ret = "months"
    /\ run.pc = "done"
    /\ RangeDays = 20
    /\ Len(batches) = 3
    /\ Len(fetched) = 24

\* C8 as stated: a failed fetch is swallowed by download_*_data: nothing reaches the
\* caller (the batch loop goes on), the store is called with no rows, and both fact
\* tables are as they were before the call.
C8_FetchFailureSwallowed ==
    (run.pc \in {"limit25", "aborted"} /\ dl.fetch_raised # "") =>
        /\ dl.propagated = ""
        /\ run.pc = "limit25"
        /\ dl.store_called
        /\ dl.rows = <<>>
        /\ exchange_rate = dl.exchange_rate0
        /\ stock = dl.stock0

\* C8 amended: a failed fetch is swallowed by download_*_data: nothing reaches the
\* caller (the batch loop goes on), the store is not called and no row is organized
\* for it, and both fact tables are as they were before the call.
C8_FetchFailureSkipsStore ==
    (run.pc \in {"limit25", "aborted"} /\ dl.fetch_raised # "") =>
        /\ dl.propagated = ""
        /\ run.pc = "limit25"
        /\ ~dl.store_called
        /\ dl.rows = <<>>
        /\ exchange_rate = dl.exchange_rate0
        /\ stock = dl.stock0

\* C8 witness: a fetch has just failed in a batch while both fact tables hold rows.
C8_Witness ==
    /\ run.pc = "limit25"
    /\ dl.fetch_raised = "KeyError"
    /\ Len(exchange_rate) > 3
    /\ Len(stock) > 0

\* ------------------------------------------------------- float arithmetic
\* A Python float is a binary64: a sign and a magnitude of at most MantDig significant
\* bits. A magnitude is the set of the exponents of its binary digits that are 1
\* ({0, -1} is 1.5); the values handled stay far from the exponent limits.
MantDig == 53

Max(S) == CHOOSE e \in S : \A f \in S : f <= e
Least(S) == CHOOSE e \in S : \A f \in S : e <= f
Shift(S, k) == { e + k : e \in S }
Xor(A, B) == (A \ B) \cup (B \ A)

\* exact sum, difference (A >= B) and product of magnitudes; their order
\* borrow lookahead over blocks of k digits: G holds the top digit of every block that
\* sends a borrow out, P the top digit of every block that passes one on
RECURSIVE Lookahead(_, _, _, _)
Lookahead(G, P, k, width) ==
    IF G = {} \/ P = {} \/ k > width THEN G
    ELSE Lookahead(G \cup (P \cap Shift(G, k)), P \cap Shift(P, k), 2 * k, width)

RECURSIVE MagAdd(_, _)
MagAdd(A, B) == IF B = {} THEN A ELSE MagAdd(Xor(A, B), Shift(A \cap B, 1))

\* a borrow starts at a digit only B has and is passed on by a digit both or neither
\* have
MagSub(A, B) ==
    IF B = {} THEN A
    ELSE LET either == A \cup B
             one == Xor(A, B)
             borrows == Lookahead(B \ A, (Least(either)..Max(either)) \ one, 1,
                                  Max(either) - Least(either) + 1)
         IN  Xor(one, Shift(borrows, 1))

MagLess(A, B) == A # B /\ Max(Xor(A, B)) \in B

\* the partial products are summed pairwise, halving the digits of B
RECURSIVE MagMul(_, _)
MagMul(A, B) ==
    IF B = {} THEN {}
    ELSE IF Least(B) = Max(B) THEN Shift(A, Max(B))
    ELSE LET mid == (Least(B) + Max(B)) \div 2
             low == { b \in B : b <= mid }
         IN  MagAdd(MagMul(A, B \ low), MagMul(A, low))

\* exact signed arithmetic
Num(sign, mag) == [sign |-> IF mag = {} THEN 1 ELSE sign, mag |-> mag]
Zero == Num(1, {})
Neg(x) == Num(-x.sign, x.mag)
Abs(x) == Num(1, x.mag)
RAdd(x, y) ==
    IF x.sign = y.sign THEN Num(x.sign, MagAdd(x.mag, y.mag))
    ELSE IF MagLess(x.mag, y.mag) THEN Num(y.sign, MagSub(y.mag, x.mag))
    ELSE Num(x.sign, MagSub(x.mag, y.mag))
RSub(x, y) == RAdd(x, Neg(y))
RMul(x, y) == Num(x.sign * y.sign, MagMul(x.mag, y.mag))
RLess(x, y) ==
    IF x.sign # y.sign THEN x.sign < y.sign
    ELSE IF x.sign = 1 THEN MagLess(x.mag, y.mag) ELSE MagLess(y.mag, x.mag)
RLeq(x, y) == x = y \/ RLess(x, y)

\* round to nearest, ties to even
RoundMag(S) ==
    IF S = {} THEN {}
    ELSE LET cut == Max(S) - MantDig + 1
             kept == { e \in S : e >= cut }
             rem == S \ kept
             up == (cut - 1) \in rem /\ (rem # {cut - 1} \/ cut \in kept)
         IN  IF up THEN MagAdd(kept, {cut}) ELSE kept
Round(x) == Num(x.sign, RoundMag(x.mag))

\* float + float, float - float, float * float
fadd(x, y) ==
    IF x.mag = {} THEN y ELSE IF y.mag = {} THEN x ELSE Round(RAdd(x, y))
fsub(x, y) ==
    IF x.mag = {} THEN Neg(y) ELSE IF y.mag = {} THEN x ELSE Round(RSub(x, y))
fmul(x, y) ==
    IF x.mag = {} \/ y.mag = {} THEN Zero ELSE Round(RMul(x, y))

\* float / float, y # 0: long division to MantDig + 2 digits and a sticky digit
\* one quotient digit: s holds the remainder R, the quotient Q and the digit e
DivStep(s, B) ==
    IF MagLess(s.R, Shift(B, s.e)) THEN [R |-> s.R, Q |-> s.Q, e |-> s.e - 1]
    ELSE [R |-> MagSub(s.R, Shift(B, s.e)), Q |-> s.Q \cup {s.e}, e |-> s.e - 1]
RECURSIVE DivSteps(_, _, _)
DivSteps(s, B, stop) == IF s.e < stop THEN s ELSE DivSteps(DivStep(s, B), B, stop)
RECURSIVE DivBits(_, _, _, _, _)
DivBits(R, B, e, last, Q) ==
    IF e < last THEN (IF R = {} THEN Q ELSE Q \cup {last - 2})
    ELSE LET stop == IF e - 7 < last THEN last ELSE e - 7
             s == DivSteps([R |-> R, Q |-> Q, e |-> e], B, stop)
         IN  DivBits(s.R, B, s.e, last, s.Q)
fdiv(x, y) ==
    IF x.mag = {} THEN Zero
    ELSE LET top == Max(x.mag) - Max(y.mag)
         IN  Num(x.sign * y.sign,
                 RoundMag(DivBits(x.mag, y.mag, top, top - MantDig - 1, {})))

\* float ** 0.5, x >= 0: digit by digit, R = x - Q * Q
SqrtStep(s) ==
    LET t == MagAdd(Shift(s.Q, s.e + 1), {2 * s.e})
    IN  IF MagLess(s.R, t) THEN [R |-> s.R, Q |-> s.Q, e |-> s.e - 1]
        ELSE [R |-> MagSub(s.R, t), Q |-> s.Q \cup {s.e}, e |-> s.e - 1]
RECURSIVE SqrtSteps(_, _)
SqrtSteps(s, stop) == IF s.e < stop THEN s ELSE SqrtSteps(SqrtStep(s), stop)
RECURSIVE SqrtBits(_, _, _, _)
SqrtBits(R, Q, e, last) ==
    IF e < last THEN (IF R = {} THEN Q ELSE Q \cup {last - 2})
    ELSE LET stop == IF e - 7 < last THEN last ELSE e - 7
             s == SqrtSteps([R |-> R, Q |-> Q, e |-> e], stop)
         IN  SqrtBits(s.R, s.Q, s.e, last)
Floor2(n) == IF n >= 0 THEN n \div 2 ELSE -((1 - n) \div 2)
fsqrt(x) ==
    IF x.mag = {} THEN Zero
    ELSE LET top == Floor2(Max(x.mag))
         IN  Num(1, RoundMag(SqrtBits(x.mag, {}, top, top - MantDig - 1)))

\* float(n) of an integer n, and n * 2^k
RECURSIVE BitsOf(_, _)
BitsOf(n, e) ==
    IF n = 0 THEN {}
    ELSE (IF n % 2 = 1 THEN {e} ELSE {}) \cup BitsOf(n \div 2, e + 1)
float(n) == IF n < 0 THEN Num(-1, BitsOf(-n, 0)) ELSE Num(1, BitsOf(n, 0))
Scaled(n, k) == Num(float(n).sign, Shift(float(n).mag, k))

\* ----------------------------------------------------------------- queries
\* ORDER BY collect_date ASC: the ISO text of a date sorts as (year, month, day)
TextLess(a, b) ==
    \/ a[1] < b[1]
    \/ a[1] = b[1] /\ (a[2] < b[2] \/ (a[2] = b[2] /\ a[3] < b[3]))

\* no ORDER BY: the rows in the order of their insertion
InsertionOrder(rows) == rows

\* a row comes after the rows of an earlier date and the earlier rows of its own date
OrderByDate(rows) ==
    LET Ahead(j, i) ==
            \/ TextLess(rows[j][1], rows[i][1])
            \/ j < i /\ ~TextLess(rows[i][1], rows[j][1])
        Place(i) == 1 + Cardinality({ j \in 1..Len(rows) : Ahead(j, i) })
    IN  [p \in 1..Len(rows) |-> rows[CHOOSE i \in 1..Len(rows) : Place(i) = p]]

\* the converter of DATE columns: the text of a date to a date
convert_date(text) == DaysBeforeMonth[text[2]] + text[3]

\* get_exchange_rate(base_currency, target_currency): the rows of the pair, joined with
\* the names, on the dates the stock table holds, by date
get_exchange_rate(base_currency, target_currency) ==
    LET stock_dates == { stock[i][1] : i \in 1..Len(stock) }
        Joined(r) == /\ \E base \in currency : base[1] = r[2] /\ base[2] = base_currency
                     /\ \E target \in currency :
                            target[1] = r[3] /\ target[2] = target_currency
                     /\ r[1] \in stock_dates
        rows == OrderByDate(SelectSeq(exchange_rate, Joined))
    IN  [i \in 1..Len(rows) |->
            <<convert_date(rows[i][1]), base_currency, target_currency, rows[i][4]>>]

\* get_stock_data(symbol): the rows of the symbol, joined with its name, by date
get_stock_data(name) ==
    LET Joined(r) == \E s \in symbol : s[1] = r[2] /\ s[2] = name
        rows == OrderByDate(SelectSeq(stock, Joined))
    IN  [i \in 1..Len(rows) |->
            <<convert_date(rows[i][1]), name, rows[i][3], rows[i][4], rows[i][5],
              rows[i][6], rows[i][7], rows[i][8], rows[i][9]>>]

\* ----------------------------------------------------------------- metrics
\* the column of the stock rows the changes are computed from (counted from 0)
price_index == 4

fraction_change(earlier, later) == fdiv(fsub(later, earlier), earlier)

\* (data[i+1][c] - data[i][c]) * 100 / data[i][c]
percent_change(earlier, later) ==
    fdiv(fmul(fsub(later, earlier), float(100)), earlier)

\* for i in range(len(data) - 1): result.append((data[i+1][0], change)); column and i
\* are counted from 1 here
\* The loop with a guard: a pair whose earlier value is 0 is skipped.
RECURSIVE changes_loop_guarded(_, _, _, _)
changes_loop_guarded(data, column, i, result) ==
    IF i > Len(data) - 1 THEN [raised |-> "", result |-> result]
    ELSE IF data[i][column] = Zero THEN changes_loop_guarded(data, column, i + 1, result)
    ELSE changes_loop_guarded(data, column, i + 1,
             Append(result, <<data[i + 1][1],
                              percent_change(data[i][column], data[i + 1][column])>>))

RECURSIVE changes_loop(_, _, _, _)
changes_loop(data, column, i, result) ==
    IF i > Len(data) - 1 THEN [raised |-> "", result |-> result]
    ELSE IF data[i][column] = Zero THEN [raised |-> "ZeroDivisionError", result |-> <<>>]
    ELSE changes_loop(data, column, i + 1,
             Append(result, <<data[i + 1][1],
                              percent_change(data[i][column], data[i + 1][column])>>))

calculate_exchange_rate_changes(base_currency, target_currency) ==
    changes_loop(get_exchange_rate(base_currency, target_currency), 3 + 1, 1, <<>>)

calculate_stock_price_changes(stock_symbol) ==
    changes_loop(get_stock_data(stock_symbol), price_index + 1, 1, <<>>)

\* The scan with >= for >: the last of the pairs of greatest change is kept.
RECURSIVE max_change_loop_last(_, _, _, _, _)
max_change_loop_last(data, column, i, max_change_date, max_change) ==
    IF i > Len(data) - 1
    THEN [raised |-> "", result |-> <<max_change_date, max_change>>]
    ELSE IF data[i][column] = Zero THEN [raised |-> "ZeroDivisionError", result |-> <<>>]
    ELSE LET change == percent_change(data[i][column], data[i + 1][column])
         IN  IF RLeq(Abs(max_change), Abs(change))
             THEN max_change_loop_last(data, column, i + 1, data[i + 1][1], change)
             ELSE max_change_loop_last(data, column, i + 1, max_change_date, max_change)

\* for i in range(len(data) - 1): change = ...; if abs(change) > abs(max_change): ...
\* column and i are counted from 1 here
RECURSIVE max_change_loop(_, _, _, _, _)
max_change_loop(data, column, i, max_change_date, max_change) ==
    IF i > Len(data) - 1
    THEN [raised |-> "", result |-> <<max_change_date, max_change>>]
    ELSE IF data[i][column] = Zero THEN [raised |-> "ZeroDivisionError", result |-> <<>>]
    ELSE LET change == percent_change(data[i][column], data[i + 1][column])
         IN  IF RLess(Abs(max_change), Abs(change))
             THEN max_change_loop(data, column, i + 1, data[i + 1][1], change)
             ELSE max_change_loop(data, column, i + 1, max_change_date, max_change)

find_max_exchange_rate_change_date(base_currency, target_currency) ==
    max_change_loop(get_exchange_rate(base_currency, target_currency), 3 + 1, 1, None, Zero)

\* The scan started from a date of 0 instead of None.
find_max_stock_change_date_zero_date(stock_symbol) ==
    max_change_loop(get_stock_data(stock_symbol), 4 + 1, 1, 0, Zero)

find_max_stock_change_date(stock_symbol) ==
    max_change_loop(get_stock_data(stock_symbol), 4 + 1, 1, None, Zero)

\* sum(vals): from 0, left to right
RECURSIVE sum(_)
sum(vals) ==
    IF vals = <<>> THEN Zero
    ELSE fadd(sum(SubSeq(vals, 1, Len(vals) - 1)), vals[Len(vals)])

Min(a, b) == IF a < b THEN a ELSE b

\* perform_correlation_analysis(exchange_data, stock_data); x ** 2 is taken as the
\* correctly rounded square. A negative product under ** 0.5 gives a complex
\* denominator, and float() of the complex quotient raises TypeError.
perform_correlation_analysis(exchange_data, stock_data) ==
    LET x_vals == [i \in 1..Len(exchange_data) |-> exchange_data[i][2]]
        y_vals == [i \in 1..Len(stock_data) |-> stock_data[i][2]]
        n == float(Len(x_vals))
        sum_x == sum(x_vals)
        sum_y == sum(y_vals)
        sum_xy == sum([i \in 1..Min(Len(x_vals), Len(y_vals)) |-> fmul(x_vals[i], y_vals[i])])
        sum_x2 == sum([i \in 1..Len(x_vals) |-> fmul(x_vals[i], x_vals[i])])
        sum_y2 == sum([i \in 1..Len(y_vals) |-> fmul(y_vals[i], y_vals[i])])
        numerator == fsub(fmul(n, sum_xy), fmul(sum_x, sum_y))
        denominator_part1 == fsub(fmul(n, sum_x2), fmul(sum_x, sum_x))
        denominator_part2 == fsub(fmul(n, sum_y2), fmul(sum_y, sum_y))
        product == fmul(denominator_part1, denominator_part2)
        denominator == fsqrt(product)
    IN  IF product.sign = -1 THEN [raised |-> "TypeError", result |-> Zero]
        ELSE IF denominator = Zero THEN [raised |-> "", result |-> Zero]
        ELSE [raised |-> "", result |-> fdiv(numerator, denominator)]

\* ------------------------------------------------- the metrics on a database
\* a day without a row
Absent == [absent |-> TRUE]

MetricDay(k) == <<Year, 1, k>>

\* the rates and the prices a day's row may carry
RateValues == { float(0), float(100), float(101) }
PlainRate == float(100)
Prices == { [low |-> float(99), close |-> float(100)],
            [low |-> float(100), close |-> float(102)],
            [low |-> float(0), close |-> float(50)] }
PlainPrice == [low |-> float(99), close |-> float(100)]

Days(fill) ==
    LET Present(k) == fill[k] # Absent
    IN  SelectSeq([k \in 1..MaxDays |-> k], Present)

Reverse(s) == [i \in 1..Len(s) |-> s[Len(s) + 1 - i]]

\* the organized rows of USD to CNY, and of AAPL, for the days that have one
ExchangeFill(fill) ==
    LET days == Days(fill)
    IN  [i \in 1..Len(days) |-> <<MetricDay(days[i]), "USD", "CNY", fill[days[i]]>>]

StockFill(fill) ==
    LET days == Days(fill)
    IN  [i \in 1..Len(days) |->
            <<MetricDay(days[i]), "AAPL", fill[days[i]].close, fill[days[i]].close,
              fill[days[i]].low, fill[days[i]].close, 10000, "NASDAQ", "USD">>]

Plain(fill, value) == \A k \in 1..MaxDays : fill[k] \in {Absent, value}

\* rates of three days running: a steady rise, a rise followed by a fall, and a
\* doubling followed by a fall to nothing
ExampleRates ==
    { <<float(100), float(101), float(102)>>, <<float(100), float(110), float(105)>>,
      <<float(50), float(100), float(0)>> }

RateFills ==
    [1..MaxDays -> RateValues \cup {Absent}]
        \cup { [k \in 1..MaxDays |-> IF k <= 3 THEN e[k] ELSE Absent] : e \in ExampleRates }

\* the database the metrics read: each fact table filled by one store call, the rows
\* handed over by rising or by falling date
InitMetrics ==
    /\ currency = SeedDim({}, <<"USD", "EUR", "CNY", "GBP">>, 1)
    /\ symbol = SeedDim({}, <<"AAPL", "TSLA", "NVDA">>, 1)
    /\ \E rates \in RateFills,
          prices \in [1..MaxDays -> Prices \cup {Absent}], falling \in BOOLEAN :
         /\ Plain(rates, PlainRate) \/ Plain(prices, PlainPrice)
         /\ exchange_rate =
                store_exchange_rates_loop(IF falling THEN Reverse(ExchangeFill(rates))
                                          ELSE ExchangeFill(rates), 1, <<>>).table
         /\ stock = store_stock_data_loop(IF falling THEN Reverse(StockFill(prices))
                                          ELSE StockFill(prices), 1, <<>>).table
    /\ committed = Commit(exchange_rate, stock)
    /\ call = NoCall
    /\ run = NoRun
    /\ fetched = <<>>
    /\ batches = <<>>
    /\ failures = 0
    /\ dl = NoDownload
    /\ calc = NoMetrics

CalcExchangeRateChanges ==
    /\ calc.fn = "none"
    /\ \E target_currency \in {"CNY", "EUR"} :
         LET r == calculate_exchange_rate_changes("USD", target_currency)
         IN  calc' = [fn |-> "calculate_exchange_rate_changes",
                      args |-> <<"USD", target_currency>>,
                      data |-> get_exchange_rate("USD", target_currency),
                      raised |-> r.raised, result |-> r.result]
    /\ UNCHANGED <<dbvars, call, batchvars>>

CalcStockPriceChanges ==
    /\ calc.fn = "none"
    /\ \E stock_symbol \in {"AAPL", "TSLA"} :
         LET r == calculate_stock_price_changes(stock_symbol)
         IN  calc' = [fn |-> "calculate_stock_price_changes", args |-> <<stock_symbol>>,
                      data |-> get_stock_data(stock_symbol),
                      raised |-> r.raised, result |-> r.result]
    /\ UNCHANGED <<dbvars, call, batchvars>>

FindMaxExchangeRateChangeDate ==
    /\ calc.fn = "none"
    /\ \E target_currency \in {"CNY", "EUR"} :
         LET r == find_max_exchange_rate_change_date("USD", target_currency)
         IN  calc' = [fn |-> "find_max_exchange_rate_change_date",
                      args |-> <<"USD", target_currency>>,
                      data |-> get_exchange_rate("USD", target_currency),
                      raised |-> r.raised, result |-> r.result]
    /\ UNCHANGED <<dbvars, call, batchvars>>

FindMaxStockChangeDate ==
    /\ calc.fn = "none"
    /\ \E stock_symbol \in {"AAPL", "TSLA"} :
         LET r == find_max_stock_change_date(stock_symbol)
         IN  calc' = [fn |-> "find_max_stock_change_date", args |-> <<stock_symbol>>,
                      data |-> get_stock_data(stock_symbol),
                      raised |-> r.raised, result |-> r.result]
    /\ UNCHANGED <<dbvars, call, batchvars>>

\* One round of the loops of main_metrics_calculation: the two change series of a
\* (symbol, currency) pair, and their correlation.  An error raised by a step ends
\* the round there.
main_metrics_correlation(symbol_, currency_) ==
    LET exchange_data == calculate_exchange_rate_changes("USD", currency_)
        stock_data == calculate_stock_price_changes(symbol_)
        correlation == perform_correlation_analysis(exchange_data.result, stock_data.result)
    IN  IF exchange_data.raised # ""
        THEN [raised |-> exchange_data.raised, passed |-> <<>>, result |-> <<>>]
        ELSE IF stock_data.raised # ""
        THEN [raised |-> stock_data.raised, passed |-> <<>>, result |-> <<>>]
        ELSE [raised |-> correlation.raised,
              passed |-> <<exchange_data.result, stock_data.result>>,
              result |-> correlation.result]

MainMetricsCorrelation ==
    /\ calc.fn = "none"
    /\ \E symbol_ \in {"AAPL", "TSLA"}, currency_ \in {"CNY", "EUR"} :
         LET r == main_metrics_correlation(symbol_, currency_)
         IN  calc' = [fn |-> "main_metrics_calculation", args |-> <<symbol_, currency_>>,
                      data |-> r.passed, raised |-> r.raised, result |-> r.result]
    /\ UNCHANGED <<dbvars, call, batchvars>>

NextMetrics ==
    \/ CalcExchangeRateChanges
    \/ CalcStockPriceChanges
    \/ FindMaxExchangeRateChangeDate
    \/ FindMaxStockChangeDate
    \/ MainMetricsCorrelation

SpecMetrics == InitMetrics /\ [][NextMetrics]_vars

\* ------------------------------------------- the correlation of two series
\* the values of a change series: 1, the float 2^-27 above 1, their negations, and
\* the float next above 1 (1 + 2^-52)
ChangeValues ==
    { float(1), Scaled(134217729, -27), float(-1), Neg(Scaled(134217729, -27)),
      Num(1, {0, -52}) }

\* the series of len entries (date, value), one a day
ChangeSeries(len) ==
    { [i \in 1..len |-> <<i, values[i]>>] : values \in [1..len -> ChangeValues] }

negate(x) == [i \in 1..Len(x) |-> <<x[i][1], Neg(x[i][2])>>]

\* the series x is correlated with: itself, its negation, the constant series
Partners(x) ==
    {x, negate(x)} \cup { [i \in 1..Len(x) |-> <<i, value>>] : value \in ChangeValues }

PerformCorrelation ==
    /\ calc.fn = "none"
    /\ \E len \in 0..MaxLen : \E x \in ChangeSeries(len) : \E y \in Partners(x) :
         LET r == perform_correlation_analysis(x, y)
         IN  calc' = [fn |-> "perform_correlation_analysis", args |-> <<x, y>>,
                      data |-> <<>>, raised |-> r.raised, result |-> r.result]
    /\ UNCHANGED <<dbvars, call, batchvars>>

NextCorrelation == PerformCorrelation

SpecCorrelation == Init /\ [][NextCorrelation]_vars

\* ------------------------------------------- one download call on its own
\* sorted(rows, key=lambda r: r[0])[:25] of Final_project/download.py
_limit_to_25_by_date(rows) ==
    LET sorted == OrderByDate(rows)
    IN  SubSeq(sorted, 1, Min(RowCap, Len(sorted)))

\* download_exchange_rate_data of Final_project/download.py: fetch, organize, limit,
\* store, except
Final_project_download_exchange_rate_data(response) ==
    LET f == get_exchange_rate_data(response)
        organized == IF f.raised = "" THEN organize_exchange_rate_data(f.json) ELSE <<>>
        organized_data == _limit_to_25_by_date(organized)
        s == IF f.raised = "" THEN store_exchange_rates_loop(organized_data, 1, exchange_rate)
             ELSE [table |-> exchange_rate, raised |-> ""]
        e == IF f.raised # "" THEN f.raised ELSE IF s.raised # "" THEN "Exception" ELSE ""
    IN  /\ exchange_rate' = s.table
        /\ committed' = IF e = "" THEN Commit(s.table, stock) ELSE committed
        /\ dl' = [fn |-> "Final_project.download_exchange_rate_data",
                  fetch_raised |-> f.raised, store_called |-> (f.raised = ""),
                  rows |-> organized_data, store_raised |-> s.raised,
                  propagated |-> Propagated(e), exchange_rate0 |-> exchange_rate,
                  stock0 |-> stock, organized |-> organized]
        /\ UNCHANGED <<currency, symbol, stock>>

\* The days of a response's rates map in the order the body lists them: n days from
\* start, ascending, descending, or the later half first.
Orders == {"ascending", "descending", "rotated"}

DayAt(start, n, order, k) ==
    IF order = "ascending" THEN start + k - 1
    ELSE IF order = "descending" THEN start + n - k
    ELSE start + ((k - 1 + n \div 2) % n)

LongPayload(start, n, order) ==
    [base |-> "USD",
     rates |-> [k \in 1..n |->
                  <<isoformat(DayAt(strptime(start), n, order, k)),
                    << <<"CNY", 7>>, <<"EUR", 1>>, <<"GBP", 1>> >> >>],
     data |-> <<>>]

RangeStarts == { <<Year, 4, 16>>, <<Year, 10, 1>>, <<Year, 10, 20>> }

\* what the exchange-rate API may answer to one request: a body of 0..MaxRespDays
\* days, or an error
RangeResponses ==
    { Response(200, TRUE, FALSE, FALSE, "true", LongPayload(start, n, order)) :
        start \in RangeStarts, n \in 0..MaxRespDays, order \in Orders }
    \cup { Response(429, TRUE, TRUE, FALSE, "missing", NoPayload) }

\* one call of download_exchange_rate_data of download.py on a fresh database file
DownloadExchangeRateData ==
    /\ dl.fn = "none"
    /\ \E response \in RangeResponses : download_exchange_rate_data(response)
    /\ UNCHANGED <<call, run, fetched, batches, failures, calc>>

\* one call of download_exchange_rate_data of Final_project/download.py, as
\* exchange_data_collection makes it
FinalProjectDownloadExchangeRateData ==
    /\ dl.fn = "none"
    /\ \E response \in RangeResponses : Final_project_download_exchange_rate_data(response)
    /\ UNCHANGED <<call, run, fetched, batches, failures, calc>>

\* A body whose days list 0..3 currencies each: day k carries the first counts[k] of
\* CNY, EUR, GBP, the rate of a currency being 10 * k + its place.
RaggedPayload(base, counts) ==
    [base |-> base,
     rates |-> [k \in 1..Len(counts) |->
                  <<isoformat(strptime(<<Year, 4, 16>>) + k - 1),
                    [c \in 1..counts[k] |-> <<(<<"CNY", "EUR", "GBP">>)[c], 10 * k + c>>]>>],
     data |-> <<>>]

RaggedPayloads ==
    { RaggedPayload(base, counts) :
        base \in {"USD", "EUR"},
        counts \in UNION { [1..n -> 0..3] : n \in 0..MaxOrgDays } }

\* organize_exchange_rate_data applied to the body of a response
OrganizeExchangeRateData ==
    /\ dl.fn = "none"
    /\ \E exchange_data \in RaggedPayloads :
         dl' = [fn |-> "organize_exchange_rate_data", fetch_raised |-> "",
                store_called |-> FALSE, rows |-> organize_exchange_rate_data(exchange_data),
                store_raised |-> "", propagated |-> "", exchange_rate0 |-> exchange_rate,
                stock0 |-> stock, payload |-> exchange_data]
    /\ UNCHANGED <<dbvars, call, run, fetched, batches, failures, calc>>

NextDownload ==
    \/ DownloadExchangeRateData
    \/ FinalProjectDownloadExchangeRateData
    \/ OrganizeExchangeRateData

SpecDownload == Init /\ [][NextDownload]_vars

\* ------------------------------------------------- the queries on a database
\* The rows handed to the store before the queries run: of the cells 1..2*MaxQueryDays,
\* cell k is day (k + 1) \div 2 and the first or the second name, its value is k.
Cells(chosen) ==
    LET Chosen(k) == k \in chosen
    IN  SelectSeq([k \in 1..(2 * MaxQueryDays) |-> k], Chosen)

QueryExchangeRows(chosen) ==
    LET cells == Cells(chosen)
    IN  [i \in 1..Len(cells) |->
            <<MetricDay((cells[i] + 1) \div 2), "USD",
              IF cells[i] % 2 = 1 THEN "CNY" ELSE "EUR", cells[i]>>]

\* MSFT is not in the symbol table: its rows are stored with a NULL symbol
QueryStockRows(chosen) ==
    LET cells == Cells(chosen)
    IN  [i \in 1..Len(cells) |->
            <<MetricDay((cells[i] + 1) \div 2), IF cells[i] % 2 = 1 THEN "AAPL" ELSE "MSFT",
              cells[i], cells[i], cells[i], cells[i], 10000, "NASDAQ", "USD">>]

\* the database the queries read: each fact table filled by one store call, the rows
\* handed over by rising or by falling date
InitQuery ==
    /\ currency = SeedDim({}, <<"USD", "EUR", "CNY", "GBP">>, 1)
    /\ symbol = SeedDim({}, <<"AAPL", "TSLA", "NVDA">>, 1)
    /\ \E rates \in SUBSET (1..(2 * MaxQueryDays)), prices \in SUBSET (1..(2 * MaxQueryDays)),
          falling \in BOOLEAN :
         /\ exchange_rate =
                store_exchange_rates_loop(IF falling THEN Reverse(QueryExchangeRows(rates))
                                          ELSE QueryExchangeRows(rates), 1, <<>>).table
         /\ stock = store_stock_data_loop(IF falling THEN Reverse(QueryStockRows(prices))
                                          ELSE QueryStockRows(prices), 1, <<>>).table
    /\ committed = Commit(exchange_rate, stock)
    /\ call = NoCall
    /\ run = NoRun
    /\ fetched = <<>>
    /\ batches = <<>>
    /\ failures = 0
    /\ dl = NoDownload
    /\ calc = NoMetrics

GetExchangeRate ==
    /\ calc.fn = "none"
    /\ \E target_currency \in {"CNY", "EUR", "GBP"} :
         calc' = [fn |-> "get_exchange_rate", args |-> <<"USD", target_currency>>,
                  data |-> get_exchange_rate("USD", target_currency),
                  raised |-> "", result |-> <<>>]
    /\ UNCHANGED <<dbvars, call, batchvars>>

GetStockData ==
    /\ calc.fn = "none"
    /\ \E name \in {"AAPL", "TSLA", "MSFT"} :
         calc' = [fn |-> "get_stock_data", args |-> <<name>>, data |-> get_stock_data(name),
                  raised |-> "", result |-> <<>>]
    /\ UNCHANGED <<dbvars, call, batchvars>>

NextQuery ==
    \/ GetExchangeRate
    \/ GetStockData

SpecQuery == InitQuery /\ [][NextQuery]_vars

\* ------------------------------------------- properties of the metrics
IsChanges ==
    calc.fn \in {"calculate_exchange_rate_changes", "calculate_stock_price_changes"}

\* the observations v: the rate of the rows read, or the price the stock function reads
Observation(i) ==
    calc.data[i][IF calc.fn = "calculate_stock_price_changes" THEN price_index + 1
                 ELSE IF calc.fn = "find_max_stock_change_date" THEN 4 + 1
                 ELSE 3 + 1]

DateOrdered == \A i \in 1..(Len(calc.data) - 1) : calc.data[i][1] < calc.data[i + 1][1]

NoZeroPrior == \A i \in 1..(Len(calc.data) - 1) : Observation(i) # Zero

\* value is (later - earlier) / earlier * 100, up to the rounding of the three float
\* operations: |value * earlier - (later - earlier) * 100| <= 2^-51 * |(later - earlier) * 100|
IsPercentChange(value, earlier, later) ==
    LET exact == RMul(RSub(later, earlier), float(100))
    IN  RLeq(Abs(RSub(RMul(value, earlier), exact)), RMul(Scaled(1, -51), Abs(exact)))

PercentChangeSeries ==
    /\ calc.raised = ""
    /\ Len(calc.result) = (IF Len(calc.data) > 0 THEN Len(calc.data) - 1 ELSE 0)
    /\ \A i \in 1..Len(calc.result) :
           /\ calc.result[i][1] = calc.data[i + 1][1]
           /\ IsPercentChange(calc.result[i][2], Observation(i), Observation(i + 1))
    /\ ( /\ Len(calc.data) = 3
         /\ Observation(1) = float(100)
         /\ Observation(2) = float(101)
         /\ Observation(3) = float(102) )
       => /\ calc.result[1][2] = float(1)
          /\ RLess(float(9900), RMul(calc.result[2][2], float(10000)))
          /\ RLess(RMul(calc.result[2][2], float(10000)), float(9902))

\* C9 as stated: for the date-ordered observations v[0..n-1] read, both change functions
\* return max(n-1, 0) entries, entry i being (date of observation i+1,
\* (v[i+1]-v[i])/v[i]*100); [100, 101, 102] gives [1.0, about 0.9901].
C9_PercentChangeSeries == IsChanges => (DateOrdered /\ PercentChangeSeries)

\* C9 amended: the same, for observations of which none but the last is 0.
C9_PercentChangeSeriesNonZero ==
    (IsChanges /\ NoZeroPrior) => (DateOrdered /\ PercentChangeSeries)

\* C9 witness: the rates 100, 101, 102 were read and two changes returned, the first 1.0.
C9_Witness ==
    /\ calc.fn = "calculate_exchange_rate_changes"
    /\ Len(calc.data) = 3
    /\ <<Observation(1), Observation(2), Observation(3)>>
           = <<float(100), float(101), float(102)>>
    /\ Len(calc.result) = 2
    /\ calc.result[1] = <<calc.data[2][1], float(1)>>

NonConstant(x) == \E i, j \in 1..Len(x) : x[i][2] # x[j][2]

\* C10: for every non-constant change series x, perform_correlation_analysis(x, x)
\* returns 1.0 and perform_correlation_analysis(x, -x) returns -1.0.
C10_PearsonIdentities ==
    (calc.fn = "perform_correlation_analysis" /\ NonConstant(calc.args[1])) =>
        /\ calc.args[2] = calc.args[1] => (calc.raised = "" /\ calc.result = float(1))
        /\ calc.args[2] = negate(calc.args[1])
               => (calc.raised = "" /\ calc.result = float(-1))

ZeroVariance(x) == \A i, j \in 1..Len(x) : x[i][2] = x[j][2]

\* C11: perform_correlation_analysis returns 0.0 and raises nothing whenever either
\* series has zero variance: a constant series against any series of the same length,
\* a one-element series, two empty series.
C11_ZeroVarianceGuard ==
    ( /\ calc.fn = "perform_correlation_analysis"
      /\ ZeroVariance(calc.args[1]) \/ ZeroVariance(calc.args[2]) )
    => (calc.raised = "" /\ calc.result = Zero)

IsMaxChange ==
    calc.fn \in {"find_max_exchange_rate_change_date", "find_max_stock_change_date"}

\* |change of pair j| <= |change of pair i|, in exact arithmetic, no observation being 0
ChangeLeq(j, i) ==
    RLeq(RMul(Abs(RSub(Observation(j + 1), Observation(j))), Abs(Observation(i))),
         RMul(Abs(RSub(Observation(i + 1), Observation(i))), Abs(Observation(j))))

\* C12: for date-ordered observations with at least one consecutive pair (and no zero
\* prior value, the case left undefined), the max-change functions return (date of the
\* later observation, signed percent change) of a pair whose change is greatest in
\* absolute value among all pairs; [(d1,100),(d2,110),(d3,105)] gives (d2, 10.0).
C12_MaxChangeScan ==
    (IsMaxChange /\ NoZeroPrior /\ Len(calc.data) >= 2) =>
        /\ calc.raised = ""
        /\ \E i \in 1..(Len(calc.data) - 1) :
               /\ calc.result[1] = calc.data[i + 1][1]
               /\ IsPercentChange(calc.result[2], Observation(i), Observation(i + 1))
               /\ \A j \in 1..(Len(calc.data) - 1) : ChangeLeq(j, i)
        /\ ( /\ Len(calc.data) = 3
             /\ Observation(1) = float(100)
             /\ Observation(2) = float(110)
             /\ Observation(3) = float(105) )
           => calc.result = <<calc.data[2][1], float(10)>>

\* C13: when the queried series has zero or one observation, both max-change
\* functions return (None, 0) and raise no error.
C13_MaxChangeDefault ==
    (IsMaxChange /\ Len(calc.data) <= 1) =>
        /\ calc.raised = ""
        /\ calc.result = <<None, Zero>>

\* A one-observation stock series was scanned and gave the default.
C13_Witness ==
    /\ calc.fn = "find_max_stock_change_date"
    /\ Len(calc.data) = 1
    /\ calc.result = <<None, Zero>>

\* the rows of a fact table that are committed
Durable(table, n) == SubSeq(table, 1, n)

IsPrefix(a, b) == Len(a) <= Len(b) /\ SubSeq(b, 1, Len(a)) = a

\* C14: the fact tables are append-only under the ingestion operations.  In every
\* step a committed row of exchange_rate and of stock stays committed, in its place
\* and with all of its values; and the rows a connection sees are only added to,
\* except that rows inserted but never committed go when their connection goes.
C14_AppendOnly ==
    [][ /\ IsPrefix(Durable(exchange_rate, committed.exchange_rate),
                    Durable(exchange_rate', committed'.exchange_rate))
        /\ IsPrefix(Durable(stock, committed.stock), Durable(stock', committed'.stock))
        /\ \/ IsPrefix(exchange_rate, exchange_rate')
           \/ exchange_rate' = Durable(exchange_rate, committed.exchange_rate)
        /\ \/ IsPrefix(stock, stock')
           \/ stock' = Durable(stock, committed.stock) ]_vars

\* A store call on a table with committed rows has raised and left a row of its own
\* inserted but not committed.
C14_Witness ==
    /\ call.op = "store_exchange_rates_to_db"
    /\ call.pc = "raised"
    /\ committed.exchange_rate >= 1
    /\ Len(exchange_rate) > committed.exchange_rate

\* rows[i] comes before rows[j] in a stable ascending order by date
Before(rows, i, j) ==
    \/ TextLess(rows[i][1], rows[j][1])
    \/ rows[i][1] = rows[j][1] /\ i < j

\* the place of rows[i] in the stable ascending order by date
Rank(rows, i) == Cardinality({ j \in 1..Len(rows) : Before(rows, j, i) }) + 1

\* C15: one download call hands at most 25 rows to the store, whatever number of
\* rows the API response contains; and the rows Final_project/download.py hands over
\* are the first 25 of the fetched rows in ascending date order, rows of one date in
\* their fetched order.
C15_RowCap ==
    (dl.fn \in {"download_exchange_rate_data", "Final_project.download_exchange_rate_data"}
     /\ dl.store_called) =>
        /\ Len(dl.rows) <= 25
        /\ dl.fn = "Final_project.download_exchange_rate_data" =>
               /\ Len(dl.rows) = Min(25, Len(dl.organized))
               /\ \A i \in 1..Len(dl.organized) :
                      Rank(dl.organized, i) <= 25 =>
                          dl.rows[Rank(dl.organized, i)] = dl.organized[i]

\* C16: the exchange-rate change series and the stock change series that
\* main_metrics_calculation passes to perform_correlation_analysis have the same
\* length, and their entries at each index carry the same date.
C16_AlignedInputs ==
    (calc.fn = "main_metrics_calculation" /\ calc.data # <<>>) =>
        /\ Len(calc.data[1]) = Len(calc.data[2])
        /\ \A i \in 1..Len(calc.data[1]) : calc.data[1][i][1] = calc.data[2][i][1]

\* the close column of the rows get_stock_data returns: date, symbol, open, high,
\* low, close, volume, exchange, currency
Close(i) == calc.data[i][6]

\* C17: calculate_stock_price_changes and find_max_stock_change_date compute the
\* percent change from the close price of the rows read, not from open, high or low.
C17_ClosePrice ==
    /\ (calc.fn = "calculate_stock_price_changes" /\ calc.raised = "") =>
           \A i \in 1..Len(calc.result) :
               IsPercentChange(calc.result[i][2], Close(i), Close(i + 1))
    /\ (calc.fn = "find_max_stock_change_date" /\ calc.raised = "") =>
           \/ calc.result = <<None, Zero>>
           \/ \E i \in 1..(Len(calc.data) - 1) :
                  /\ calc.result[1] = calc.data[i + 1][1]
                  /\ IsPercentChange(calc.result[2], Close(i), Close(i + 1))

\* C18: a zero prior value is not guarded.  The two change functions and the two
\* max-change functions raise a division-by-zero error, and return nothing, exactly
\* when an observation other than the last one is 0; a 0 in the last position alone
\* causes no error.
C18_ZeroPriorRaises ==
    (IsChanges \/ IsMaxChange) =>
        /\ ~NoZeroPrior <=> calc.raised = "ZeroDivisionError"
        /\ NoZeroPrior <=> calc.raised = ""
        /\ calc.raised # "" => calc.result = <<>>

\* Three rates were read of which the second is 0: the first change could have been
\* computed, and the call raised.
C18_Witness ==
    /\ calc.fn = "calculate_exchange_rate_changes"
    /\ Len(calc.data) = 3
    /\ Observation(1) # Zero
    /\ Observation(2) = Zero
    /\ calc.raised = "ZeroDivisionError"

\* the number of fetches of a date in the run
TimesFetched(d) ==
    Cardinality({ j \in 1..Len(fetched) : fetched[j] = <<isoformat(d), isoformat(d)>> })

\* C19: in one run of a backfill over start..end, start <= end, the fetches are
\* issued for the consecutive calendar dates from start on, in rising order, without
\* gap and without repetition; when the run has ended every date of start..end has
\* been fetched exactly once.
C19_BackfillCoverage ==
    (run.ret = "months" /\ run.pc # "idle" /\ RangeDays >= 1) =>
        /\ \A j \in 1..Len(fetched) :
               fetched[j] = <<isoformat(strptime(run.arg_start) + j - 1),
                              isoformat(strptime(run.arg_start) + j - 1)>>
        /\ run.pc = "done" =>
               \A d \in strptime(run.arg_start)..strptime(run.arg_end) : TimesFetched(d) = 1

\* A backfill over 9 days has ended: the second batch began on the ninth day, and
\* the end date was fetched once.
C19_Witness ==
    /\ run.ret = "months"
    /\ run.pc = "done"
    /\ RangeDays = 9
    /\ Len(batches) = 2
    /\ TimesFetched(strptime(run.arg_end)) = 1

\* C20: no retry and no failure bookkeeping.  Within a batch no date is fetched
\* twice; every attempt, failed or not, moves the batch on by one day and counts 3
\* records; no failure ends the batch early; and a batch that has ended has made
\* exactly 8 attempts.
C20_NoRetry ==
    run.conn > 0 =>
        /\ \A j, k \in 1..Len(BatchFetches) : j # k => BatchFetches[j] # BatchFetches[k]
        /\ run.pc # "aborted"
        /\ run.pc = "limit25" =>
               /\ run.start_date = run.batch_start + Len(BatchFetches)
               /\ run.i = 3 * Len(BatchFetches)
        /\ run.pc \in {"months", "done"} => Len(BatchFetches) = 8

\* A batch of exchange-rate fetches on its own has ended after 8 attempts of which
\* one, not the last, failed.
C20_Witness ==
    /\ run.ret = "top"
    /\ run.pc = "done"
    /\ failures = 1
    /\ dl.fetch_raised = ""
    /\ Len(BatchFetches) = 8
    /\ run.kind = "exchange"

\* C21: after any number of set_up_database calls the currency table holds exactly
\* USD, EUR, CNY, GBP with the ids 0..3 and the symbol table exactly AAPL, TSLA, NVDA
\* with the ids 0..2; no name appears twice, and no id of a name ever changes.
C21_DimensionsSeededOnce ==
    /\ currency = {<<0, "USD">>, <<1, "EUR">>, <<2, "CNY">>, <<3, "GBP">>}
    /\ symbol = {<<0, "AAPL">>, <<1, "TSLA">>, <<2, "NVDA">>}
    /\ \A a, b \in currency : a[2] = b[2] => a = b
    /\ \A a, b \in symbol : a[2] = b[2] => a = b

\* set_up_database has run again on a database that holds committed rows of both
\* fact tables.
C21_Witness ==
    /\ call = NoCall
    /\ committed.exchange_rate >= 1
    /\ committed.stock >= 1
    /\ Cardinality(currency) = 4

\* C22: during one run of a backfill, all of its batches included, every
\* fetch-and-store call uses one and the same database connection: no second
\* connection is opened while the run is in progress.
C22_SingleConnection == run.ret = "months" => run.conn <= 1

\* C23: every insert of a store call is committed before the next statement of the
\* call executes: when the call has processed two rows or more, no row but the one
\* of the last statement is inserted and not committed.
C23_PerStatementCommit ==
    (call.op # "none" /\ call.k >= 2) =>
        /\ Len(exchange_rate) - committed.exchange_rate <= 1
        /\ Len(stock) - committed.stock <= 1

\* the row a query returns for a stored exchange_rate row, and for a stored stock row
ExchangeImage(r, base_currency, target_currency) ==
    <<convert_date(r[1]), base_currency, target_currency, r[4]>>

StockImage(r, name) ==
    <<convert_date(r[1]), name, r[3], r[4], r[5], r[6], r[7], r[8], r[9]>>

\* the stored rows a query is to return
ExchangeWanted(base_currency, target_currency) ==
    { j \in 1..Len(exchange_rate) :
        /\ get_currency_id(base_currency) # None
        /\ exchange_rate[j][2] = get_currency_id(base_currency)
        /\ get_currency_id(target_currency) # None
        /\ exchange_rate[j][3] = get_currency_id(target_currency)
        /\ \E k \in 1..Len(stock) : stock[k][1] = exchange_rate[j][1] }

StockWanted(name) ==
    { j \in 1..Len(stock) : get_symbol_id(name) # None /\ stock[j][2] = get_symbol_id(name) }

StrictlyByDate(rows) == \A i \in 1..(Len(rows) - 1) : rows[i][1] < rows[i + 1][1]

\* C24: get_exchange_rate(base, target) returns exactly the stored rows of the pair
\* whose date also occurs in the stock table, for any symbol, in strictly increasing
\* date order with no date twice; get_stock_data(symbol) returns exactly the stored
\* rows of the symbol in strictly increasing date order.
C24_OrderedFilteredQuery ==
    /\ calc.fn = "get_exchange_rate" =>
           /\ StrictlyByDate(calc.data)
           /\ Len(calc.data) = Cardinality(ExchangeWanted(calc.args[1], calc.args[2]))
           /\ \A j \in ExchangeWanted(calc.args[1], calc.args[2]) :
                  \E i \in 1..Len(calc.data) :
                      calc.data[i] = ExchangeImage(exchange_rate[j], calc.args[1], calc.args[2])
    /\ calc.fn = "get_stock_data" =>
           /\ StrictlyByDate(calc.data)
           /\ Len(calc.data) = Cardinality(StockWanted(calc.args[1]))
           /\ \A j \in StockWanted(calc.args[1]) :
                  \E i \in 1..Len(calc.data) :
                      calc.data[i] = StockImage(stock[j], calc.args[1])

\* get_exchange_rate has returned the two rows of a pair from a table that holds rows
\* of two pairs by falling date, the stock table holding a row with a NULL symbol.
C24_Witness ==
    /\ calc.fn = "get_exchange_rate"
    /\ Len(calc.data) = 2
    /\ Len(exchange_rate) >= 3
    /\ TextLess(exchange_rate[Len(exchange_rate)][1], exchange_rate[1][1])
    /\ \E k \in 1..Len(stock) : stock[k][2] = None

\* the number of (day, currency) entries of the days before day d
RECURSIVE EntriesBefore(_, _)
EntriesBefore(rates, d) ==
    IF d = 1 THEN 0 ELSE EntriesBefore(rates, d - 1) + Len(rates[d - 1][2])

\* C25: organize_exchange_rate_data returns exactly one row (date, base, target
\* currency, rate) for every (day, currency) entry of the rates map: the row count is
\* the sum over the days of the number of their currencies, every entry has its row,
\* none twice, and every row carries the base currency of the response.
C25_FlatteningPreservesPayload ==
    dl.fn = "organize_exchange_rate_data" =>
        LET rates == dl.payload.rates
        IN  /\ Len(dl.rows) = EntriesBefore(rates, Len(rates) + 1)
            /\ \A d \in 1..Len(rates) : \A c \in 1..Len(rates[d][2]) :
                   dl.rows[EntriesBefore(rates, d) + c]
                       = <<rates[d][1], dl.payload.base, rates[d][2][c][1], rates[d][2][c][2]>>
            /\ \A i \in 1..Len(dl.rows) : dl.rows[i][2] = dl.payload.base

\* A body of two days, the first of three currencies and the second of one, has been
\* flattened to four rows.
C25_Witness ==
    /\ dl.fn = "organize_exchange_rate_data"
    /\ Len(dl.payload.rates) = 2
    /\ Len(dl.payload.rates[1][2]) = 3
    /\ Len(dl.payload.rates[2][2]) = 1
    /\ Len(dl.rows) = 4

\* C26: every date fetched by a backfill over start..end lies between start and
\* end + 7 days; and when the number of days of the range is no multiple of 8, dates
\* after end are fetched, the last of them being the last day of the last batch.
C26_BoundedOvershoot ==
    (run.ret = "months" /\ run.pc # "idle") =>
        /\ \A j \in 1..Len(fetched) :
               /\ strptime(run.arg_start) <= strptime(fetched[j][1])
               /\ strptime(fetched[j][1]) <= strptime(run.arg_end) + 7
               /\ fetched[j][2] = fetched[j][1]
        /\ (run.pc = "done" /\ RangeDays >= 1) =>
               /\ strptime(fetched[Len(fetched)][1])
                      = strptime(run.arg_start) + 8 * BatchesWanted - 1
               /\ RangeDays % 8 # 0 =>
                      strptime(fetched[Len(fetched)][1]) > strptime(run.arg_end)
               /\ RangeDays % 8 = 0 => fetched[Len(fetched)][1] = run.arg_end

\* A backfill over 9 days has ended: its last fetch is 7 days after the end date.
C26_Witness ==
    /\ run.ret = "months"
    /\ run.pc = "done"
    /\ RangeDays = 9
    /\ strptime(fetched[Len(fetched)][1]) = strptime(run.arg_end) + 7

\* the call has raised on a row of an unknown currency
RaisedOnUnknown ==
    /\ call.op = "store_exchange_rates_to_db"
    /\ call.pc = "raised"

\* C27: a store call that raises on a row of an unknown currency is not
\* all-or-nothing.  The rows of the call before that row are in the table, the call
\* has committed nothing, the next call on the same connection starts with the rows
\* still pending, and a call that returns commits every row pending on the connection.
C27_PartialInsertOnError ==
    /\ [](RaisedOnUnknown =>
            /\ ~ExchangeNamesKnown(call.data[call.k])
            /\ IsPrefix(call.exchange_rate0, exchange_rate)
            /\ \A j \in 1..(call.k - 1) :
                   \E i \in 1..Len(exchange_rate) :
                       <<exchange_rate[i][1], exchange_rate[i][2], exchange_rate[i][3]>>
                           = ExchangeKeyOf(call.data[j])
            /\ committed.exchange_rate <= Len(call.exchange_rate0))
    /\ [][ /\ (call.pc = "raised" /\ call'.pc = "loop") =>
                  /\ exchange_rate' = exchange_rate
                  /\ stock' = stock
                  /\ committed' = committed
           /\ (call.pc = "loop" /\ call'.pc = "returned") =>
                  /\ exchange_rate' = exchange_rate
                  /\ stock' = stock
                  /\ committed' = Commit(exchange_rate, stock) ]_vars

\* A call has raised on its second row: the row before it is inserted and not
\* committed.
C27_Witness ==
    /\ RaisedOnUnknown
    /\ call.k = 2
    /\ Len(exchange_rate) = Len(call.exchange_rate0) + 1
    /\ committed.exchange_rate < Len(exchange_rate)

\* the percent change of pair i as the functions compute it
Change(i) == percent_change(Observation(i), Observation(i + 1))

\* pair i has the greatest absolute change, and no pair before it has
FirstGreatest(i) ==
    /\ \A j \in 1..(Len(calc.data) - 1) : RLeq(Abs(Change(j)), Abs(Change(i)))
    /\ \A j \in 1..(i - 1) : RLess(Abs(Change(j)), Abs(Change(i)))

\* C28: of several pairs with the same greatest absolute percent change both
\* max-change functions return the earliest; when every change is exactly 0 the
\* result is (None, 0), as for an empty series.
C28_EarliestOfTies ==
    (IsMaxChange /\ NoZeroPrior) =>
        /\ calc.raised = ""
        /\ IF \A i \in 1..(Len(calc.data) - 1) : Change(i) = Zero
           THEN calc.result = <<None, Zero>>
           ELSE \E i \in 1..(Len(calc.data) - 1) :
                    /\ FirstGreatest(i)
                    /\ calc.result = <<calc.data[i + 1][1], Change(i)>>

\* The rates 50, 100, 0 were scanned: a change of +100 and then one of -100, and the
\* date of the first was returned.
C28_Witness ==
    /\ calc.fn = "find_max_exchange_rate_change_date"
    /\ Len(calc.data) = 3
    /\ Abs(Change(1)) = Abs(Change(2))
    /\ Change(1) = float(100)
    /\ calc.result = <<calc.data[2][1], float(100)>>

====
